---------------------------- MODULE Spec2Model ----------------------------
(***************************************************************************)
(* Rule-based push-up repetition counter (form-fit-service).               *)
(*                                                                         *)
(* Models app/services/detectors/pushup_detector.py: the geometric phase   *)
(* classifier, the majority-vote smoother over position_history, and the   *)
(* repetition pattern matcher over phase_history with its time debounce.   *)
(*                                                                         *)
(* Units.  Landmark coordinates are integers in hundredths of the          *)
(* normalized image size (0..100).  Averages of two coordinates are kept   *)
(* doubled (left + right), and every threshold is doubled with them, so    *)
(* the comparisons are exact.  Time is counted in half-second ticks.       *)
(***************************************************************************)
EXTENDS Integers, Sequences, FiniteSets, TLC

(***************************************************************************)
(* Bounds of the model.                                                    *)
(***************************************************************************)
\* updates fed to one detector in one behaviour (frames of any shape)
MaxFrames == 6
\* updates made by one run of the realtime loop (33-point frames only)
LoopFrames == 8
\* frames in each batch of the end-to-end scenario
BatchSize == 5
\* ticks the clock may advance after the first reading
MaxClock == 2
\* updates fed to one detector to overflow phase_history
HistoryFrames == 12
\* updates fed to one detector to meet the debounce guard and outlast it
DebounceFrames == 11
\* updates made by the realtime loop with its filter and keyboard
RealtimeFrames == 4

(***************************************************************************)
(* Program constants.                                                      *)
(***************************************************************************)
\* self.min_rep_interval = 1.0 (seconds), in half-second ticks
min_rep_interval == 2
\* deque(maxlen=10)
phase_history_maxlen == 10
\* deque(maxlen=5)
position_history_maxlen == 5

\* time.time() is wall-clock time since the epoch: at every reading it is far
\* beyond min_rep_interval.  The first reading of a behaviour.
StartTime == 2 * min_rep_interval

PhaseLabel == {"neutral", "up", "down", "transition"}

(***************************************************************************)
(* Python sequence helpers.                                                *)
(***************************************************************************)
Range(s) == {s[i] : i \in DOMAIN s}

\* list(q)[-n:]
LastN(s, n) == IF Len(s) <= n THEN s ELSE SubSeq(s, Len(s) - n + 1, Len(s))

\* list(q)[:-1]
AllButLast(s) == IF Len(s) = 0 THEN s ELSE SubSeq(s, 1, Len(s) - 1)

\* list.count(p)
Count(s, p) == Cardinality({i \in DOMAIN s : s[i] = p})

\* mutant of DequeAppend: a plain list, nothing is ever dropped
DequeAppend_Unbounded(q, maxlen, x) == Append(q, x)

\* deque(maxlen=n).append(x): the oldest entry is dropped when full
DequeAppend(q, maxlen, x) ==
    IF Len(q) < maxlen THEN Append(q, x) ELSE Append(Tail(q), x)

(***************************************************************************)
(* Landmark frames: a Python list of (x, y) tuples.  landmarks[i][1] of    *)
(* the source (0-based) is landmarks[i + 1][2] here.                       *)
(***************************************************************************)
PointY(landmarks, i) == landmarks[i + 1][2]

\* the indices detect_pushup_phase reads
KeyIndices == {0, 11, 12, 13, 14, 15, 16}

\* a frame of n points, all at (50, 50) except the seven key points
MkFrame(n, nose, shoulders, elbows, wrists) ==
    [i \in 1..n |->
        CASE i = 1           -> <<50, nose>>
          [] i \in {12, 13}  -> <<50, shoulders>>
          [] i \in {14, 15}  -> <<50, elbows>>
          [] i \in {16, 17}  -> <<50, wrists>>
          [] OTHER           -> <<50, 50>>]

(***************************************************************************)
(* detect_pushup_phase, lines 22-79: the raw label of one frame.           *)
(***************************************************************************)
\* mutant of InvalidFrameShape: only short frames are rejected
InvalidFrameShape_Short(landmarks) == Len(landmarks) < 33

\* line 22: if len(landmarks) != 33
InvalidFrameShape(landmarks) == Len(landmarks) # 33

\* an index outside the list raises IndexError (lines 26-32)
IndexError(landmarks) == \E i \in KeyIndices : i + 1 \notin DOMAIN landmarks

\* mutant of RawPhase: the down tally is looked at first
RawPhase_DownFirst(landmarks) ==
    LET avg_wrist_y2    == PointY(landmarks, 15) + PointY(landmarks, 16)
        avg_shoulder_y2 == PointY(landmarks, 11) + PointY(landmarks, 12)
        avg_elbow_y2    == PointY(landmarks, 13) + PointY(landmarks, 14)
        nose_y2         == 2 * PointY(landmarks, 0)
        wrist_shoulder_diff2 == avg_wrist_y2 - avg_shoulder_y2
        elbow_shoulder_diff2 == avg_elbow_y2 - avg_shoulder_y2
        nose_shoulder_diff2  == nose_y2 - avg_shoulder_y2
        up1   == IF wrist_shoulder_diff2 < 2 * (-15) THEN 2 ELSE 0
        down1 == IF wrist_shoulder_diff2 >= 2 * (-15) /\ wrist_shoulder_diff2 > 2 * 10
                 THEN 1 ELSE 0
        up2   == IF elbow_shoulder_diff2 < 2 * (-5) THEN 1 ELSE 0
        down2 == IF elbow_shoulder_diff2 >= 2 * (-5) /\ elbow_shoulder_diff2 > 2 * 5
                 THEN 1 ELSE 0
        up3   == IF nose_shoulder_diff2 < 2 * (-10) THEN 1 ELSE 0
        down3 == IF nose_shoulder_diff2 >= 2 * (-10) /\ nose_shoulder_diff2 > 2 * 5
                 THEN 1 ELSE 0
        up_indicators   == up1 + up2 + up3
        down_indicators == down1 + down2 + down3
    IN  IF down_indicators >= 2 THEN "down"
        ELSE IF up_indicators >= 2 THEN "up"
        ELSE "transition"

\* lines 35-79, for a frame whose key points exist
RawPhase(landmarks) ==
    LET avg_wrist_y2    == PointY(landmarks, 15) + PointY(landmarks, 16)
        avg_shoulder_y2 == PointY(landmarks, 11) + PointY(landmarks, 12)
        avg_elbow_y2    == PointY(landmarks, 13) + PointY(landmarks, 14)
        nose_y2         == 2 * PointY(landmarks, 0)
        wrist_shoulder_diff2 == avg_wrist_y2 - avg_shoulder_y2
        elbow_shoulder_diff2 == avg_elbow_y2 - avg_shoulder_y2
        nose_shoulder_diff2  == nose_y2 - avg_shoulder_y2
        up1   == IF wrist_shoulder_diff2 < 2 * (-15) THEN 2 ELSE 0
        down1 == IF wrist_shoulder_diff2 >= 2 * (-15) /\ wrist_shoulder_diff2 > 2 * 10
                 THEN 1 ELSE 0
        up2   == IF elbow_shoulder_diff2 < 2 * (-5) THEN 1 ELSE 0
        down2 == IF elbow_shoulder_diff2 >= 2 * (-5) /\ elbow_shoulder_diff2 > 2 * 5
                 THEN 1 ELSE 0
        up3   == IF nose_shoulder_diff2 < 2 * (-10) THEN 1 ELSE 0
        down3 == IF nose_shoulder_diff2 >= 2 * (-10) /\ nose_shoulder_diff2 > 2 * 5
                 THEN 1 ELSE 0
        up_indicators   == up1 + up2 + up3
        down_indicators == down1 + down2 + down3
    IN  IF up_indicators >= 2 THEN "up"
        ELSE IF down_indicators >= 2 THEN "down"
        ELSE "transition"

\* lines 22-79: the label of a frame before smoothing
Classified(landmarks) ==
    IF InvalidFrameShape(landmarks) THEN "neutral" ELSE RawPhase(landmarks)

(***************************************************************************)
(* detect_pushup_phase, lines 81-90: the smoother.                         *)
(***************************************************************************)
\* mutant of MajorityVote: no vote, the latest label wins
MajorityVote_Latest(recent_phases) == {recent_phases[Len(recent_phases)]}

\* lines 86-88: max(phase_counts, key=phase_counts.get) over a dict built from
\* set(recent_phases).  max returns the first key of maximal count in the
\* dict's order, which is the set's iteration order: it depends on the string
\* hashes (randomised per process) and is fixed by nothing in the program.
\* Every label of maximal count is a possible outcome.
MajorityVote(recent_phases) ==
    {p \in Range(recent_phases) :
        \A q \in Range(recent_phases) :
            Count(recent_phases, p) >= Count(recent_phases, q)}

\* mutant of RecentPhases: the vote is taken over the whole window
RecentPhases_All(position_history) == position_history

\* lines 85-86: the labels the vote is taken over
RecentPhases(position_history) == LastN(position_history, 3)

\* mutant of detect_pushup_phase: the "neutral" of a malformed frame goes
\* through the window like any raw label
detect_pushup_phase_SmoothsNeutral(self, landmarks) ==
    LET phase == IF InvalidFrameShape(landmarks) THEN "neutral"
                 ELSE RawPhase(landmarks)
        hist  == DequeAppend(self.position_history,
                             position_history_maxlen, phase)
    IN  IF Len(hist) >= 3
        THEN {[phase |-> p, position_history |-> hist, raised |-> FALSE] :
                 p \in MajorityVote(RecentPhases(hist))}
        ELSE {[phase |-> phase, position_history |-> hist, raised |-> FALSE]}

\* The outcomes of detect_pushup_phase(landmarks) on detector self: the label
\* returned, the position_history left behind, and whether it raised.
detect_pushup_phase(self, landmarks) ==
    IF InvalidFrameShape(landmarks)
    THEN {[phase |-> "neutral", position_history |-> self.position_history,
           raised |-> FALSE]}
    ELSE IF IndexError(landmarks)
    THEN {[phase |-> "neutral", position_history |-> self.position_history,
           raised |-> TRUE]}
    ELSE LET phase == RawPhase(landmarks)
             hist  == DequeAppend(self.position_history,
                                  position_history_maxlen, phase)
         IN  IF Len(hist) >= 3
             THEN {[phase |-> p, position_history |-> hist, raised |-> FALSE] :
                      p \in MajorityVote(RecentPhases(hist))}
             ELSE {[phase |-> phase, position_history |-> hist, raised |-> FALSE]}

(***************************************************************************)
(* The repetition state machine.                                           *)
(***************************************************************************)
\* __init__, lines 11-18
PushupDetector ==
    [rep_count        |-> 0,
     current_phase    |-> "neutral",
     last_phase       |-> "neutral",
     phase_history    |-> <<>>,
     last_rep_time    |-> 0,
     position_history |-> <<>>]

\* mutant of count_rep: line 142 is missing, last_rep_time is not recorded
count_rep_NoTime(self, current_time) ==
    [self EXCEPT !.rep_count     = @ + 1,
                 !.phase_history = <<>>]

\* mutant of count_rep: the rep is registered twice
count_rep_Twice(self, current_time) ==
    [self EXCEPT !.rep_count     = @ + 2,
                 !.last_rep_time = current_time,
                 !.phase_history = <<>>]

\* mutant of count_rep: line 146 is missing, phase_history is not cleared
count_rep_KeepsHistory(self, current_time) ==
    [self EXCEPT !.rep_count     = @ + 1,
                 !.last_rep_time = current_time]

\* count_rep, lines 139-146 (time.time() read as current_time)
count_rep(self, current_time) ==
    [self EXCEPT !.rep_count     = @ + 1,
                 !.last_rep_time = current_time,
                 !.phase_history = <<>>]

\* lines 127-130: adjacent unequal pairs
Transitions(recent) ==
    Cardinality({i \in 2..Len(recent) : recent[i] # recent[i - 1]})

\* mutant of EnoughTransitions: one transition is taken for a rep
EnoughTransitions_One(transitions) == transitions >= 1

\* line 133: a valid rep needs at least 2 transitions
EnoughTransitions(transitions) == transitions >= 2

\* line 114: the debounce guard
TooSoon(self, current_time) ==
    current_time - self.last_rep_time < min_rep_interval

\* mutant of RepPattern: the window is one entry short
RepPattern_Last5(phase_history) ==
    LET recent    == LastN(phase_history, 5)
        has_down  == "down" \in Range(AllButLast(recent))
        is_up_now == recent[Len(recent)] = "up"
    IN  has_down /\ is_up_now /\ EnoughTransitions(Transitions(recent))

\* lines 118-133: the pattern over the last 6 phases
RepPattern(phase_history) ==
    LET recent    == LastN(phase_history, 6)
        has_down  == "down" \in Range(AllButLast(recent))
        is_up_now == recent[Len(recent)] = "up"
    IN  has_down /\ is_up_now /\ EnoughTransitions(Transitions(recent))

\* mutant of check_rep_completion: a pattern met too soon is thrown away
check_rep_completion_DropsSuppressed(self, current_time) ==
    IF Len(self.phase_history) < 4
    THEN [self |-> self, completed |-> FALSE]
    ELSE IF TooSoon(self, current_time)
    THEN [self |-> [self EXCEPT !.phase_history = <<>>], completed |-> FALSE]
    ELSE IF RepPattern(self.phase_history)
    THEN [self |-> count_rep(self, current_time), completed |-> TRUE]
    ELSE [self |-> self, completed |-> FALSE]

\* check_rep_completion, lines 108-137: the detector afterwards and the
\* value returned
check_rep_completion(self, current_time) ==
    IF Len(self.phase_history) < 4
    THEN [self |-> self, completed |-> FALSE]
    ELSE IF TooSoon(self, current_time)
    THEN [self |-> self, completed |-> FALSE]
    ELSE IF RepPattern(self.phase_history)
    THEN [self |-> count_rep(self, current_time), completed |-> TRUE]
    ELSE [self |-> self, completed |-> FALSE]

\* mutant of PushedPhase: the raw label of the frame is pushed, not the
\* smoothed one
PushedPhase_Raw(detected) ==
    IF detected.position_history = <<>>
    THEN detected.phase
    ELSE detected.position_history[Len(detected.position_history)]

\* the value pushed into phase_history (line 96)
PushedPhase(detected) == detected.phase

\* update, lines 92-106: the outcomes of update(landmarks) at time current_time.
\* An exception of detect_pushup_phase leaves line 94's assignment behind.
update(self, landmarks, current_time) ==
    {LET s1 == [self EXCEPT !.last_phase = self.current_phase]
     IN  IF d.raised
         THEN [self |-> s1, raised |-> TRUE, pushed |-> <<>>,
               result |-> [phase |-> "neutral", rep_count |-> 0,
                           rep_completed |-> FALSE, phase_history |-> <<>>]]
         ELSE LET s2 == [s1 EXCEPT !.current_phase = d.phase,
                                   !.position_history = d.position_history,
                                   !.phase_history =
                                       DequeAppend(@, phase_history_maxlen,
                                                   PushedPhase(d))]
                  c  == check_rep_completion(s2, current_time)
              IN  [self |-> c.self, raised |-> FALSE,
                   pushed |-> s2.phase_history,
                   result |-> [phase         |-> c.self.current_phase,
                               rep_count     |-> c.self.rep_count,
                               rep_completed |-> c.completed,
                               phase_history |-> c.self.phase_history]]
     : d \in detect_pushup_phase(self, landmarks)}

\* mutant of reset: line 152 is missing, position_history is kept
reset_KeepsPositions(self) ==
    [self EXCEPT !.rep_count     = 0,
                 !.phase_history = <<>>,
                 !.last_rep_time = 0]

\* mutant of reset: line 151 is missing, phase_history is kept
reset_KeepsHistory(self) ==
    [self EXCEPT !.rep_count        = 0,
                 !.position_history = <<>>,
                 !.last_rep_time    = 0]

\* reset, lines 148-153
reset(self) ==
    [self EXCEPT !.rep_count        = 0,
                 !.phase_history    = <<>>,
                 !.position_history = <<>>,
                 !.last_rep_time    = 0]

(***************************************************************************)
(* Frames fed to the detector.                                             *)
(***************************************************************************)
\* wrists, elbows and nose above the shoulders
FrameUp == MkFrame(33, 30, 50, 40, 25)
\* wrists, elbows and nose below the shoulders (wrist_shoulder_diff = +0.20)
FrameDown == MkFrame(33, 60, 50, 60, 70)
\* everything level with the shoulders
FrameTransition == MkFrame(33, 50, 50, 50, 50)
\* extract_ml_coordinates(None) returns []
FrameEmpty == <<>>
\* one point too many
FrameLong == MkFrame(34, 30, 50, 40, 25)

ValidFrames == {FrameUp, FrameDown, FrameTransition}
InvalidFrames == {FrameEmpty, FrameLong}
Frames == ValidFrames \cup InvalidFrames

(***************************************************************************)
(* State.                                                                  *)
(***************************************************************************)
VARIABLES
    det,         \* the PushupDetector instance
    now,         \* the clock: what time.time() returns
    frames,      \* updates made so far
    lastOp,      \* the last operation: "init", "update" or "reset"
    wellShaped,  \* whether the last update's argument had exactly 33 points
    raw,         \* the label lines 22-79 gave the last update's frame since
                 \* construction or the last reset; "neutral" when there is none
    pushed,      \* phase_history right after line 96 of the last update
    result,      \* the record the last update returned
    raised,      \* whether the last update raised
    seen,        \* the phases returned since construction or the last reset
    completedAt, \* clock of the last update that returned rep_completed = True
                 \* since construction or the last reset; -1 when there is none
    sinceRep,    \* updates that have returned since the last one that returned
                 \* rep_completed = True (3 stands for 3 or more); -1 when
                 \* there is none
    other,       \* a second detector instance, to compare det with
    otherResult, \* the record the second instance's last update returned
    paired,      \* whether the second instance receives det's calls
    gap,         \* end-to-end scenario: clock advance between the two batches
    probe,       \* classifier scenario: the y coordinates of the key landmarks
                 \* of the frame to classify; <<>> in the other scenarios
    loop         \* realtime scenario: where main() of realtime_detect.py
                 \* stands, and what its last iteration found

vars == <<det, now, frames, lastOp, wellShaped, raw, pushed, result, raised, seen,
          completedAt, sinceRep, other, otherResult, paired, gap, probe, loop>>

NoResult ==
    [phase |-> "neutral", rep_count |-> 0, rep_completed |-> FALSE,
     phase_history |-> <<>>]

Constructed ==
    /\ det = PushupDetector
    /\ now = StartTime
    /\ frames = 0
    /\ lastOp = "init"
    /\ wellShaped = TRUE
    /\ raw = "neutral"
    /\ pushed = <<>>
    /\ result = NoResult
    /\ raised = FALSE
    /\ seen = {}
    /\ completedAt = -1
    /\ sinceRep = -1
    /\ other = PushupDetector
    /\ otherResult = NoResult
    /\ paired = FALSE
    /\ gap = -1
    /\ loop = [pc |-> "capture", posed |-> FALSE, quality |-> 0, key |-> ""]

Init == Constructed /\ probe = <<>>

\* the clock readings possible at the next call: the clock does not go back
ClockReadings == now..(StartTime + MaxClock)

\* det after outcome o of update(f), called with the clock at t
Returned(o, f, t) ==
    /\ det' = o.self
    /\ now' = t
    /\ frames' = frames + 1
    /\ lastOp' = "update"
    /\ wellShaped' = (Len(f) = 33)
    /\ raw' = IF o.raised THEN raw ELSE Classified(f)
    /\ pushed' = o.pushed
    /\ result' = o.result
    /\ raised' = o.raised
    /\ seen' = IF o.raised THEN seen ELSE seen \cup {o.result.phase}
    /\ completedAt' = IF o.result.rep_completed THEN t ELSE completedAt
    /\ sinceRep' = IF o.result.rep_completed THEN 0
                   ELSE IF sinceRep = -1 \/ sinceRep = 3 \/ o.raised THEN sinceRep
                   ELSE sinceRep + 1
    /\ UNCHANGED probe

\* det after reset()
WasReset ==
    /\ det' = reset(det)
    /\ lastOp' = "reset"
    /\ seen' = {}
    /\ completedAt' = -1
    /\ raw' = "neutral"
    /\ UNCHANGED <<now, frames, wellShaped, pushed, result, raised, sinceRep,
                   probe>>

(***************************************************************************)
(* Spec: one detector used as a library, fed frames of any shape.          *)
(***************************************************************************)
Update ==
    /\ frames < MaxFrames
    /\ \E f \in Frames, t \in ClockReadings :
         \E o \in update(det, f, t) : Returned(o, f, t)
    /\ UNCHANGED <<other, otherResult, paired, gap, loop>>

Reset ==
    /\ lastOp = "update"
    /\ WasReset
    /\ UNCHANGED <<other, otherResult, paired, gap, loop>>

Next == Update \/ Reset

Spec == Init /\ [][Next]_vars

(***************************************************************************)
(* SpecLoop: the detector as scripts/realtime_detect.py drives it.  The    *)
(* pose source yields 33 landmarks per frame, update() is called for the   *)
(* frames that pass the quality filter, and the 'r' key resets.            *)
(***************************************************************************)
LoopUpdate ==
    /\ frames < LoopFrames
    /\ \E f \in ValidFrames, t \in ClockReadings :
         \E o \in update(det, f, t) : Returned(o, f, t)
    /\ UNCHANGED <<other, otherResult, paired, gap, loop>>

LoopReset ==
    /\ lastOp = "update"
    /\ WasReset
    /\ UNCHANGED <<other, otherResult, paired, gap, loop>>

NextLoop == LoopUpdate \/ LoopReset

SpecLoop == Init /\ [][NextLoop]_vars

(***************************************************************************)
(* Two instances in one process fed the same call.  The vote of lines      *)
(* 86-88 depends only on the labels inserted and the process's string      *)
(* hashes, so two instances holding the same position_history return the   *)
(* same phase.                                                             *)
(***************************************************************************)
SameProcess(o, o2) ==
    det.position_history = other.position_history
        => o.self.current_phase = o2.self.current_phase

\* update(f) at clock t on both instances
BothReturned(f, t) ==
    \E o \in update(det, f, t), o2 \in update(other, f, t) :
        /\ SameProcess(o, o2)
        /\ Returned(o, f, t)
        /\ other' = o2.self
        /\ otherResult' = o2.result

(***************************************************************************)
(* SpecReset: det is used and reset; from the reset on, a newly            *)
(* constructed instance receives the same calls at the same clock.         *)
(***************************************************************************)
UseAlone ==
    /\ ~paired
    /\ frames < MaxFrames
    /\ \E f \in Frames, t \in ClockReadings :
         \E o \in update(det, f, t) : Returned(o, f, t)
    /\ UNCHANGED <<other, otherResult, paired, gap, loop>>

\* reset() on det, PushupDetector() for the other instance
ResetAndConstruct ==
    /\ lastOp = "update"
    /\ WasReset
    /\ other' = PushupDetector
    /\ otherResult' = NoResult
    /\ paired' = TRUE
    /\ UNCHANGED <<gap, loop>>

UseBoth ==
    /\ paired
    /\ frames < MaxFrames
    /\ \E f \in Frames, t \in ClockReadings : BothReturned(f, t)
    /\ UNCHANGED <<paired, gap, loop>>

NextReset == UseAlone \/ ResetAndConstruct \/ UseBoth

SpecReset == Init /\ [][NextReset]_vars

(***************************************************************************)
(* SpecFilter: one stream of frames, some of them malformed, fed to det;   *)
(* the same stream without its malformed frames fed to the other instance, *)
(* each frame at the same clock.                                           *)
(***************************************************************************)
FeedWellFormed ==
    /\ frames < MaxFrames
    /\ \E f \in ValidFrames, t \in ClockReadings : BothReturned(f, t)
    /\ UNCHANGED <<paired, gap, loop>>

FeedMalformed ==
    /\ frames < MaxFrames
    /\ \E f \in InvalidFrames, t \in ClockReadings :
         \E o \in update(det, f, t) : Returned(o, f, t)
    /\ UNCHANGED <<other, otherResult, paired, gap, loop>>

NextFilter == FeedWellFormed \/ FeedMalformed

SpecFilter == Init /\ [][NextFilter]_vars

(***************************************************************************)
(* SpecE2E: the end-to-end scenario.  A new detector receives BatchSize    *)
(* frames classified "down", then BatchSize frames classified "up".        *)
(***************************************************************************)
DownFrames == {f \in ValidFrames : RawPhase(f) = "down"}
UpFrames == {f \in ValidFrames : RawPhase(f) = "up"}

\* the scenario's clock runs long enough for gaps shorter than, equal to and
\* beyond min_rep_interval
E2EReadings == now..(StartTime + MaxClock + 2 * min_rep_interval)

FeedDown ==
    /\ frames < BatchSize
    /\ \E f \in DownFrames, t \in E2EReadings :
         \E o \in update(det, f, t) : Returned(o, f, t)
    /\ UNCHANGED <<other, otherResult, paired, gap, loop>>

FeedUp ==
    /\ BatchSize <= frames
    /\ frames < 2 * BatchSize
    /\ \E f \in UpFrames, t \in E2EReadings :
         \E o \in update(det, f, t) :
            /\ Returned(o, f, t)
            /\ gap' = IF frames = BatchSize THEN t - now ELSE gap
    /\ UNCHANGED <<other, otherResult, paired, loop>>

NextE2E == FeedDown \/ FeedUp

SpecE2E == Init /\ [][NextE2E]_vars

(***************************************************************************)
(* SpecLong: one detector fed more frames than either buffer holds, all    *)
(* within one clock tick (a camera delivers some 30 frames a second).      *)
(***************************************************************************)
LongFrames == {FrameDown, FrameUp, FrameEmpty}

FeedLong ==
    /\ frames < HistoryFrames
    /\ \E f \in LongFrames :
         \E o \in update(det, f, now) : Returned(o, f, now)
    /\ UNCHANGED <<other, otherResult, paired, gap, loop>>

NextLong == FeedLong

SpecLong == Init /\ [][NextLong]_vars

(***************************************************************************)
(* SpecClassify: a new detector classifies one 33-point frame, whose key   *)
(* landmarks lie around the thresholds of lines 45-71.                     *)
(*                                                                         *)
(* The source computes the averages and differences in binary floating     *)
(* point, where 0.35 - 0.50 is -0.15000000000000002 and so below -0.15.    *)
(* The frames are chosen so that the arithmetic of the source is exact or  *)
(* its rounding error cannot decide a comparison:                          *)
(*  - GridProbes: left and right landmarks apart, every difference at      *)
(*    least half a hundredth away from its thresholds, on either side;     *)
(*  - EdgeProbes: shoulders at y = 0 and left = right, so that each        *)
(*    difference is the coordinate itself, exactly on a threshold or one   *)
(*    hundredth away from it (MediaPipe reports points above the image     *)
(*    with negative y).                                                    *)
(***************************************************************************)
NoseY == {39, 41, 48, 54, 56}
ShoulderY == {45, 55}
ElbowY == {42, 47, 52, 57}
WristY == {32, 37, 57, 62, 67}

\* y of landmarks 0, 11, 12, 13, 14, 15, 16, in this order
GridProbes ==
    NoseY \X ShoulderY \X ShoulderY \X ElbowY \X ElbowY \X WristY \X WristY

EdgeProbes ==
    {<<n, 0, 0, e, e, w, w>> :
        n \in {-11, -10, -9, 4, 5, 6},
        e \in {-6, -5, -4, 4, 5, 6},
        w \in {-16, -15, -14, 9, 10, 11}}

Probes == GridProbes \cup EdgeProbes

\* the 33-point frame with these key landmarks
ProbeFrame(y) ==
    [i \in 1..33 |->
        CASE i = 1  -> <<50, y[1]>>
          [] i = 12 -> <<50, y[2]>>
          [] i = 13 -> <<50, y[3]>>
          [] i = 14 -> <<50, y[4]>>
          [] i = 15 -> <<50, y[5]>>
          [] i = 16 -> <<50, y[6]>>
          [] i = 17 -> <<50, y[7]>>
          [] OTHER  -> <<50, 50>>]

InitClassify == Constructed /\ probe \in Probes

Classify ==
    /\ lastOp = "init"
    /\ \E o \in update(det, ProbeFrame(probe), now) :
         Returned(o, ProbeFrame(probe), now)
    /\ UNCHANGED <<other, otherResult, paired, gap, loop>>

NextClassify == Classify

SpecClassify == InitClassify /\ [][NextClassify]_vars

(***************************************************************************)
(* SpecTwin: two detectors, each in a process of its own (two runs of the  *)
(* service, two workers), fed the same 33-point frames within one clock    *)
(* tick.                                                                   *)
(* The string hashes of the two processes are independent, so the votes of *)
(* lines 86-88 are resolved independently.                                 *)
(***************************************************************************)
FeedTwins ==
    /\ frames < MaxFrames
    /\ \E f \in ValidFrames :
         \E o \in update(det, f, now), o2 \in update(other, f, now) :
            /\ Returned(o, f, now)
            /\ other' = o2.self
            /\ otherResult' = o2.result
    /\ UNCHANGED <<paired, gap, loop>>

NextTwin == FeedTwins

SpecTwin == Init /\ [][NextTwin]_vars

(***************************************************************************)
(* SpecRealtime: main() of scripts/realtime_detect.py.  Each pass of the   *)
(* while loop reads a camera frame, runs the pose detector on it, calls    *)
(* update() when the pose passes the filter (lines 28-65), and then reads  *)
(* the keyboard (lines 69-74).                                             *)
(*                                                                         *)
(* What MediaPipe found in a frame is the visibility of the 12 landmarks   *)
(* of ml_landmarks, in quarters (1 is 0.25, 4 is 1.0), or <<>> when it     *)
(* found no pose.  Quarters and their sums are exact in the source's       *)
(* floating point.                                                         *)
(***************************************************************************)
\* base_detector.py, lines 35-42
ml_landmarks == <<11, 12, 13, 14, 15, 16, 23, 24, 25, 26, 27, 28>>

\* n4 landmarks of visibility 1.0, then n3 of 0.75, n2 of 0.5, the rest 0.25
Visibility(n4, n3, n2) ==
    [i \in 1..Len(ml_landmarks) |->
        IF i <= n4 THEN 4
        ELSE IF i <= n4 + n3 THEN 3
        ELSE IF i <= n4 + n3 + n2 THEN 2
        ELSE 1]

\* results.pose_landmarks of line 61: nothing, or a pose that is clearly
\* visible, one with 7 and one with 8 visible key landmarks, and poses whose
\* average visibility is 28/48, 29/48 and 32/48 (0.6 is 28.8/48)
PoseResults ==
    {<<>>, Visibility(12, 0, 0), Visibility(7, 0, 5), Visibility(0, 8, 0),
     Visibility(0, 8, 1), Visibility(0, 8, 4)}

RECURSIVE SumSeq(_)
SumSeq(s) == IF s = <<>> THEN 0 ELSE Head(s) + SumSeq(Tail(s))

\* base_detector.py, lines 64-72: the landmarks, or None (here <<>>) unless at
\* least 60% of the key landmarks have visibility > 0.5
process(pose_landmarks) ==
    IF pose_landmarks # <<>>
       /\ 10 * Cardinality({i \in DOMAIN pose_landmarks : pose_landmarks[i] > 2})
             >= 6 * Len(ml_landmarks)
    THEN pose_landmarks
    ELSE <<>>

\* base_detector.py, lines 89-99: the average visibility of the key landmarks,
\* as the sum of their quarters (the quality times 4 * 12)
get_landmark_quality(landmarks) ==
    IF landmarks = <<>> THEN 0 ELSE SumSeq(landmarks)

\* mutant of GoodQuality: the threshold is 0.5
GoodQuality_Half(quality) == 10 * quality > 5 * 4 * Len(ml_landmarks)

\* realtime_detect.py, line 41: quality > 0.6
GoodQuality(quality) == 10 * quality > 6 * 4 * Len(ml_landmarks)

\* line 28-30: cap.read() fails and the loop ends
CaptureFails ==
    /\ loop.pc = "capture"
    /\ loop' = [loop EXCEPT !.pc = "done"]
    /\ UNCHANGED <<det, now, frames, lastOp, wellShaped, raw, pushed, result,
                   raised, seen, completedAt, sinceRep, other, otherResult,
                   paired, gap, probe>>

\* lines 35-37 and 63-65: no pose
SkipNoPose ==
    /\ loop.pc = "capture"
    /\ \E p \in PoseResults :
         /\ process(p) = <<>>
         /\ loop' = [loop EXCEPT !.pc = "key", !.posed = FALSE, !.quality = 0]
    /\ UNCHANGED <<det, now, frames, lastOp, wellShaped, raw, pushed, result,
                   raised, seen, completedAt, sinceRep, other, otherResult,
                   paired, gap, probe>>

\* lines 37-41 and 60-62: a pose of low quality
SkipLowQuality ==
    /\ loop.pc = "capture"
    /\ \E p \in PoseResults :
         /\ process(p) # <<>>
         /\ ~GoodQuality(get_landmark_quality(process(p)))
         /\ loop' = [loop EXCEPT !.pc = "key", !.posed = TRUE,
                                 !.quality = get_landmark_quality(process(p))]
    /\ UNCHANGED <<det, now, frames, lastOp, wellShaped, raw, pushed, result,
                   raised, seen, completedAt, sinceRep, other, otherResult,
                   paired, gap, probe>>

\* lines 37-43: update(coords) with the 33 points of the pose
UpdateGood ==
    /\ loop.pc = "capture"
    /\ frames < RealtimeFrames
    /\ \E p \in PoseResults :
         /\ process(p) # <<>>
         /\ GoodQuality(get_landmark_quality(process(p)))
         /\ loop' = [loop EXCEPT !.pc = "key", !.posed = TRUE,
                                 !.quality = get_landmark_quality(process(p))]
         /\ \E f \in ValidFrames, t \in ClockReadings :
               \E o \in update(det, f, t) : Returned(o, f, t)
    /\ UNCHANGED <<other, otherResult, paired, gap>>

\* lines 69-71: 'q' ends the loop
KeyQuit ==
    /\ loop.pc = "key"
    /\ loop' = [loop EXCEPT !.pc = "done", !.key = "q"]
    /\ UNCHANGED <<det, now, frames, lastOp, wellShaped, raw, pushed, result,
                   raised, seen, completedAt, sinceRep, other, otherResult,
                   paired, gap, probe>>

\* lines 72-74: 'r' resets the detector
KeyReset ==
    /\ loop.pc = "key"
    /\ loop' = [loop EXCEPT !.pc = "capture", !.key = "r"]
    /\ WasReset
    /\ UNCHANGED <<other, otherResult, paired, gap>>

\* line 69: no key within the millisecond, or a key the loop ignores
KeyOther ==
    /\ loop.pc = "key"
    /\ \E k \in {"", "x"} : loop' = [loop EXCEPT !.pc = "capture", !.key = k]
    /\ UNCHANGED <<det, now, frames, lastOp, wellShaped, raw, pushed, result,
                   raised, seen, completedAt, sinceRep, other, otherResult,
                   paired, gap, probe>>

NextRealtime ==
    \/ CaptureFails
    \/ SkipNoPose
    \/ SkipLowQuality
    \/ UpdateGood
    \/ KeyQuit
    \/ KeyReset
    \/ KeyOther

SpecRealtime == Init /\ [][NextRealtime]_vars

(***************************************************************************)
(* SpecDebounce: one detector fed frames classified "down" or "up", long   *)
(* enough for a rep, a second pattern within min_rep_interval of it, and   *)
(* updates after that.                                                     *)
(***************************************************************************)
FeedDebounce ==
    /\ frames < DebounceFrames
    /\ \E f \in DownFrames \cup UpFrames, t \in ClockReadings :
         \E o \in update(det, f, t) : Returned(o, f, t)
    /\ UNCHANGED <<other, otherResult, paired, gap, loop>>

NextDebounce == FeedDebounce

SpecDebounce == Init /\ [][NextDebounce]_vars

(***************************************************************************)
(* Claims.                                                                 *)
(***************************************************************************)
\* C1 (as stated): after BatchSize frames classified "down" and, the clock
\* advanced by more than min_rep_interval, BatchSize frames classified "up",
\* rep_count is 1.
C1_AsStated ==
    (frames = 2 * BatchSize /\ gap > min_rep_interval) => det.rep_count = 1

\* C1 (amended): after BatchSize frames classified "down" and, the clock
\* advanced by more than min_rep_interval, BatchSize frames classified "up",
\* rep_count is 0: the smoothed history changes label once, from "down" to
\* "up", and a rep needs two changes.
C1_SlowBatchesCountNothing ==
    (frames = 2 * BatchSize /\ gap > min_rep_interval) => det.rep_count = 0

C1_Witness ==
    /\ frames = 2 * BatchSize
    /\ gap > min_rep_interval
    /\ det.rep_count = 0
    /\ det.phase_history[1] = "down"
    /\ det.phase_history[Len(det.phase_history)] = "up"
    /\ Len(det.phase_history) = phase_history_maxlen

\* C9: after BatchSize frames classified "down" and BatchSize frames
\* classified "up" with less than min_rep_interval between the batches,
\* rep_count is 0.
C9_FastBatchesCountNothing ==
    (frames = 2 * BatchSize /\ gap >= 0 /\ gap < min_rep_interval) => det.rep_count = 0

C9_Witness ==
    /\ frames = 2 * BatchSize
    /\ gap >= 0
    /\ gap < min_rep_interval
    /\ det.rep_count = 0
    /\ result.phase = "up"
    /\ "down" \in Range(result.phase_history)


\* C2: an update returns rep_completed = TRUE exactly when, after the push,
\* phase_history has at least 4 entries, the clock is at least
\* min_rep_interval past last_rep_time, "down" occurs among the last (at
\* most 6) entries before the final one, the final one is "up", and at least
\* 2 adjacent pairs of those entries differ; rep_count then grows by exactly 1
\* and phase_history is left empty.
C2_RepCompletionRule ==
    [][(lastOp' = "update" /\ ~raised') =>
         LET h  == pushed'
             n  == Len(h)
             lo == IF n > 6 THEN n - 5 ELSE 1
             rule ==
                /\ n >= 4
                /\ now' - det.last_rep_time >= min_rep_interval
                /\ \E i \in lo..(n - 1) : h[i] = "down"
                /\ h[n] = "up"
                /\ Cardinality({i \in (lo + 1)..n : h[i] # h[i - 1]}) >= 2
         IN  /\ result'.rep_completed <=> rule
             /\ result'.rep_completed =>
                   /\ det'.rep_count = det.rep_count + 1
                   /\ det'.phase_history = <<>>
             /\ ~result'.rep_completed => det'.rep_count = det.rep_count
      ]_vars

\* a history of the shortest length completes a rep, as [Down, Down,
\* Transition, Up] does in the claim's example
C2_Witness ==
    /\ lastOp = "update"
    /\ result.rep_completed
    /\ pushed = <<"down", "transition", "transition", "up">>
    /\ det.phase_history = <<>>
    /\ det.rep_count = 1

\* C3: of the updates made on one detector with no reset between them, any
\* two that return rep_completed = TRUE are at least min_rep_interval apart.
C3_Debounce ==
    [][(lastOp' = "update" /\ result'.rep_completed /\ completedAt >= 0)
          => now' - completedAt >= min_rep_interval]_vars

\* an update whose history matches the pattern, less than min_rep_interval
\* after a completed one, returns rep_completed = FALSE
C3_Witness ==
    /\ lastOp = "update"
    /\ completedAt >= 0
    /\ now - completedAt < min_rep_interval
    /\ Len(pushed) >= 4
    /\ RepPattern(pushed)
    /\ ~result.rep_completed
    /\ det.rep_count = 1


\* C4: from a reset() on, det returns to every update the record a newly
\* constructed detector returns to the same updates at the same clock.
C4_ResetLikeNew ==
    (paired /\ lastOp = "update") => result = otherResult

\* after a reset that followed earlier updates, both complete a rep
C4_Witness ==
    /\ paired
    /\ lastOp = "update"
    /\ frames > 4
    /\ result.rep_completed
    /\ otherResult.rep_completed
    /\ det.last_phase = other.last_phase

\* C5 (as stated): malformed frames in a stream never make det count a rep
\* that is not counted on the same stream without them.
C5_NoExtraRep == det.rep_count <= other.rep_count

\* C6: from construction or a reset on, as long as every update has returned
\* the same phase, no update completes a rep and rep_count is 0.
C6_StaticNeverCompletes ==
    (lastOp = "update" /\ Cardinality(seen) <= 1)
        => (det.rep_count = 0 /\ ~result.rep_completed)

C6_Witness ==
    /\ lastOp = "update"
    /\ seen = {"down"}
    /\ Len(det.phase_history) >= 5
    /\ det.rep_count = 0

\* C7: an update with a frame of a length other than 33 raises nothing and
\* returns phase "neutral" and rep_completed = FALSE, rep_count unchanged.
C7_InvalidShapeAbsorbed ==
    [][(lastOp' = "update" /\ ~wellShaped') =>
          /\ ~raised'
          /\ result'.phase = "neutral"
          /\ ~result'.rep_completed
          /\ result'.rep_count = det.rep_count
          /\ det'.rep_count = det.rep_count]_vars

\* a malformed frame met with a history that holds "down" and 4 entries
C7_Witness ==
    /\ lastOp = "update"
    /\ ~wellShaped
    /\ Len(pushed) >= 4
    /\ "down" \in Range(pushed)
    /\ "up" \in Range(pushed)
    /\ result.phase = "neutral"

\* C8: after an update with a 33-point frame, if position_history holds at
\* least 3 labels the phase returned is a most frequent label among its last
\* 3 (the label that occurs at least twice, if there is one); with fewer than
\* 3 it is the raw label of the frame, the last entry of position_history.
C8_MajorityVote ==
    (lastOp = "update" /\ wellShaped /\ ~raised) =>
        LET w == det.position_history
            n == Len(w)
            cnt(q) == Cardinality({i \in (n - 2)..n : w[i] = q})
        IN  /\ n >= 1
            /\ n >= 3 =>
                  /\ \A q \in PhaseLabel : cnt(result.phase) >= cnt(q)
                  /\ \A q \in PhaseLabel : cnt(q) >= 2 => result.phase = q
            /\ n < 3 => result.phase = w[n]

\* the example of the claim: [Down, Down, Up] gives Down
C8_Witness ==
    /\ lastOp = "update"
    /\ wellShaped
    /\ Len(det.position_history) >= 3
    /\ LastN(det.position_history, 3) = <<"down", "down", "up">>
    /\ result.phase = "down"

\* C10: rep_count is never negative; an update leaves it or raises it by 1;
\* it only goes down in a reset, to 0.
C10_RepCountMonotonic ==
    /\ [](det.rep_count >= 0)
    /\ [][/\ lastOp' = "update" =>
                det'.rep_count \in {det.rep_count, det.rep_count + 1}
          /\ det'.rep_count < det.rep_count =>
                (lastOp' = "reset" /\ det'.rep_count = 0)]_vars

\* a reset has taken rep_count from 2 to 0
C10_Witness ==
    /\ lastOp = "reset"
    /\ det.rep_count = 0
    /\ result.rep_count = 2


\* C11: every update that returns gives a record whose phase is the label this
\* call pushed into phase_history and whose rep_count is the detector's
\* rep_count after the call; rep_completed is TRUE exactly when this call
\* raised rep_count, and then the snapshot returned is empty; when it is FALSE
\* the snapshot is not empty and its last entry is the phase returned.
C11_ResultRecord ==
    [][(lastOp' = "update" /\ ~raised') =>
         /\ pushed' # <<>>
         /\ result'.phase = pushed'[Len(pushed')]
         /\ result'.rep_count = det'.rep_count
         /\ result'.rep_completed <=> det'.rep_count > det.rep_count
         /\ result'.rep_completed => result'.phase_history = <<>>
         /\ ~result'.rep_completed =>
               /\ result'.phase_history # <<>>
               /\ result'.phase_history[Len(result'.phase_history)]
                     = result'.phase
      ]_vars

\* a completing update whose phase, "up", is not the raw label of its frame
C11_Witness ==
    /\ lastOp = "update"
    /\ result.rep_completed
    /\ result.phase_history = <<>>
    /\ result.rep_count = 1
    /\ result.phase = "up"
    /\ det.position_history[Len(det.position_history)] # "up"


\* C12 (as stated): on every update, whatever the shape of the frame, the raw
\* label of the frame is appended to position_history, and the label pushed
\* into phase_history is the smoother's output over that window.
C12_AsStated ==
    [][(lastOp' = "update" /\ ~raised') =>
         /\ det'.position_history =
               DequeAppend(det.position_history, position_history_maxlen, raw')
         /\ LET w == det'.position_history
                n == Len(w)
                cnt(q) == Cardinality({i \in (n - 2)..n : w[i] = q})
            IN  IF n >= 3
                THEN \A q \in PhaseLabel : cnt(pushed'[Len(pushed')]) >= cnt(q)
                ELSE pushed'[Len(pushed')] = w[n]
      ]_vars

\* C12 (amended): on every update with a 33-point frame the raw label of the
\* frame is appended to position_history, and the label pushed into
\* phase_history is the smoother's output over that window: a most frequent
\* label among its last 3 once 3 are present, the raw label before.  An update
\* with a frame of another length leaves position_history as it is and pushes
\* "neutral".
C12_Pipeline ==
    [][(lastOp' = "update" /\ ~raised') =>
         IF wellShaped'
         THEN /\ det'.position_history =
                    DequeAppend(det.position_history, position_history_maxlen,
                                raw')
              /\ LET w == det'.position_history
                     n == Len(w)
                     cnt(q) == Cardinality({i \in (n - 2)..n : w[i] = q})
                 IN  IF n >= 3
                     THEN \A q \in PhaseLabel :
                              cnt(pushed'[Len(pushed')]) >= cnt(q)
                     ELSE pushed'[Len(pushed')] = w[n]
         ELSE /\ det'.position_history = det.position_history
              /\ raw' = "neutral"
              /\ pushed'[Len(pushed')] = "neutral"
      ]_vars

\* a 33-point frame whose raw label is outvoted, with a full window and a
\* history that holds the "neutral" of a malformed frame
C12_Witness ==
    /\ lastOp = "update"
    /\ wellShaped
    /\ raw = "up"
    /\ Len(det.position_history) = position_history_maxlen
    /\ "neutral" \in Range(pushed)
    /\ pushed[Len(pushed)] = "down"


\* C13: position_history never holds more than position_history_maxlen labels
\* and phase_history never more than phase_history_maxlen.  A push into a
\* buffer that is not full adds the label at the end; a push into a full one
\* drops exactly the oldest entry, keeps the others in order and adds the
\* label at the end.
C13_BoundedHistories ==
    /\ [](/\ Len(det.position_history) <= position_history_maxlen
          /\ Len(det.phase_history) <= phase_history_maxlen)
    /\ [][(lastOp' = "update" /\ ~raised') =>
            LET Pushed(old, new, maxlen, x) ==
                    IF Len(old) < maxlen
                    THEN /\ Len(new) = Len(old) + 1
                         /\ \A i \in 1..Len(old) : new[i] = old[i]
                         /\ new[Len(new)] = x
                    ELSE /\ Len(new) = maxlen
                         /\ \A i \in 1..(maxlen - 1) : new[i] = old[i + 1]
                         /\ new[maxlen] = x
            IN  /\ Pushed(det.phase_history, pushed', phase_history_maxlen,
                          result'.phase)
                /\ Len(pushed') <= phase_history_maxlen
                /\ wellShaped' =>
                      Pushed(det.position_history, det'.position_history,
                             position_history_maxlen, raw')
          ]_vars

\* both buffers have overflowed: 12 updates, one of them with a malformed
\* frame that is still in phase_history, and 6 or more with 33 points
C13_Witness ==
    /\ lastOp = "update"
    /\ frames = 12
    /\ Len(det.phase_history) = phase_history_maxlen
    /\ Len(det.position_history) = position_history_maxlen
    /\ det.phase_history[1] = "neutral"
    /\ det.phase_history[phase_history_maxlen] = "up"
    /\ det.rep_count = 0


\* C14: for a 33-point frame, with up votes = 2 if wrist_shoulder_diff < -0.15,
\* +1 if elbow_shoulder_diff < -0.05, +1 if nose_shoulder_diff < -0.10, and
\* down votes = 1 for each of wrist_shoulder_diff > 0.10, elbow_shoulder_diff
\* > 0.05 and nose_shoulder_diff > 0.05, the raw label is "up" when up votes
\* >= 2, otherwise "down" when down votes >= 2, otherwise "transition"; "up"
\* wins when both tallies reach 2, and the raw label is never "neutral".
\* (Differences of averages are doubled here, and so are the thresholds.)
C14_ClassifierDecision ==
    (lastOp = "update" /\ probe # <<>>) =>
        LET wrist2 == (probe[6] + probe[7]) - (probe[2] + probe[3])
            elbow2 == (probe[4] + probe[5]) - (probe[2] + probe[3])
            nose2  == 2 * probe[1] - (probe[2] + probe[3])
            upVotes == (IF wrist2 < -30 THEN 2 ELSE 0)
                       + (IF elbow2 < -10 THEN 1 ELSE 0)
                       + (IF nose2 < -20 THEN 1 ELSE 0)
            downVotes == (IF wrist2 > 20 THEN 1 ELSE 0)
                         + (IF elbow2 > 10 THEN 1 ELSE 0)
                         + (IF nose2 > 10 THEN 1 ELSE 0)
        IN  /\ upVotes >= 2 => raw = "up"
            /\ (upVotes < 2 /\ downVotes >= 2) => raw = "down"
            /\ (upVotes < 2 /\ downVotes < 2) => raw = "transition"
            /\ raw # "neutral"
            /\ result.phase = raw

\* both tallies reach 2: the wrists are above the shoulders, the elbows and
\* the nose below, and the label is "up"
C14_Witness ==
    /\ lastOp = "update"
    /\ probe = <<56, 45, 55, 57, 57, 32, 32>>
    /\ raw = "up"
    /\ result.phase = "up"


\* C15 (as stated): two detectors fed the same raw labels report the same
\* phase at every update, also when the last three raw labels are pairwise
\* distinct.
C15_SameLabelsSamePhase ==
    (lastOp = "update" /\ det.position_history = other.position_history)
        => result.phase = otherResult.phase


\* C16: in the realtime loop update() is called for a captured frame only when
\* a pose was detected and its landmark quality is above 0.6; on every other
\* frame rep_count, both histories and last_rep_time are left as they were;
\* and the detector is reset only on the 'r' key.
C16_CallerSideFilter ==
    [][/\ frames' # frames =>
             /\ loop.pc = "capture"
             /\ loop'.posed
             /\ 10 * loop'.quality > 6 * 4 * 12
       /\ (loop.pc = "capture" /\ frames' = frames) =>
             /\ det'.rep_count = det.rep_count
             /\ det'.phase_history = det.phase_history
             /\ det'.position_history = det.position_history
             /\ det'.last_rep_time = det.last_rep_time
       /\ (frames' = frames /\ det' # det) =>
             /\ loop.pc = "key"
             /\ loop'.key = "r"
             /\ det'.rep_count = 0
             /\ det'.phase_history = <<>>
             /\ det'.position_history = <<>>
      ]_vars

\* after two updates and a reset on 'r', a frame with a pose of quality
\* 28/48 (0.58) was passed over
C16_Witness ==
    /\ loop.pc = "key"
    /\ loop.posed
    /\ loop.quality = 28
    /\ loop.key = "r"
    /\ lastOp = "reset"
    /\ frames >= 2
    /\ Len(pushed) >= 2
    /\ det.phase_history = <<>>


\* C17: after an update that returns rep_completed = TRUE, none of the next
\* three updates of that detector returns rep_completed = TRUE, whatever the
\* frames and the clock.
C17_ThreeUpdatesApart ==
    [][(frames' # frames /\ result'.rep_completed /\ sinceRep # -1)
          => sinceRep >= 3]_vars

\* the fourth update after a completing one completes the next rep
C17_Witness ==
    /\ lastOp = "update"
    /\ result.rep_completed
    /\ sinceRep = 0
    /\ det.rep_count = 2
    /\ frames = 8
    /\ Len(pushed) = 4


\* C18: an update that returns rep_completed = FALSE leaves rep_count and
\* last_rep_time as they were and does not clear phase_history, which only
\* gains the pushed label (losing its oldest entry when it held
\* phase_history_maxlen); so a pattern met within min_rep_interval of the last
\* rep stays in phase_history, for a later update to count.
C18_NonCompletingUpdate ==
    [][(frames' # frames /\ ~raised' /\ ~result'.rep_completed) =>
          LET old == det.phase_history
              new == det'.phase_history
              n   == Len(old)
          IN  /\ det'.rep_count = det.rep_count
              /\ det'.last_rep_time = det.last_rep_time
              /\ new # <<>>
              /\ new[Len(new)] = result'.phase
              /\ IF n < phase_history_maxlen
                 THEN /\ Len(new) = n + 1
                      /\ \A i \in 1..n : new[i] = old[i]
                 ELSE /\ Len(new) = n
                      /\ \A i \in 1..(n - 1) : new[i] = old[i + 1]
      ]_vars

\* the second rep is counted by the update that follows one at which the
\* pattern was already there, too soon after the first rep
C18_Witness ==
    /\ lastOp = "update"
    /\ result.rep_completed
    /\ det.rep_count = 2
    /\ Len(pushed) >= 5
    /\ RepPattern(AllButLast(pushed))


\* C19: position_history never holds "neutral"; an update with a frame of a
\* length other than 33 leaves position_history as it was; and an update with
\* a 33-point frame never returns, nor pushes into phase_history, "neutral".
C19_NeutralNeverSmoothed ==
    /\ [](Range(det.position_history) \subseteq {"up", "down", "transition"})
    /\ [][(frames' # frames /\ ~raised') =>
            /\ ~wellShaped' => det'.position_history = det.position_history
            /\ wellShaped' =>
                  /\ result'.phase # "neutral"
                  /\ pushed' # <<>>
                  /\ pushed'[Len(pushed')] # "neutral"
            /\ \A i \in 1..(Len(pushed') - 1) :
                  pushed'[i] = "neutral" => "neutral" \in Range(det.phase_history)
          ]_vars

\* a malformed frame met with a full window: "neutral" is in phase_history,
\* and the five labels of position_history are still there
C19_Witness ==
    /\ lastOp = "update"
    /\ ~wellShaped
    /\ frames = 6
    /\ Len(det.position_history) = position_history_maxlen
    /\ det.phase_history[Len(det.phase_history)] = "neutral"
    /\ Cardinality({i \in DOMAIN det.phase_history :
                       det.phase_history[i] = "neutral"}) = 1

=============================================================================
